---- MODULE Spec2Model ----
(***************************************************************************)
(* Model of the semantic-highlight extension.  The repository holds two    *)
(* revisions of the extension's entry point:                               *)
(*   rev "save"  : src/src/extension.ts   (pending edits flushed on save,  *)
(*                 the program is rebuilt from the file on disk)           *)
(*   rev "batch" : src/unnamed/part_002   (pending edits flushed when the  *)
(*                 buffer reaches maxTextChangeBufferLength, the stored    *)
(*                 tree is updated incrementally)                          *)
(* The variable rev says which of the two activate() functions runs.       *)
(***************************************************************************)
EXTENDS Integers, Sequences, FiniteSets, TLC

(***************************************************************************)
(* Bounds of the model.                                                    *)
(***************************************************************************)
MaxPending == 2        \* longest pending-edit buffer explored by Spec
MaxTwo == 1            \* longest pending-edit buffer explored by SpecTwo
MaxEditors == 1        \* most visible editors showing one document
MaxBurst == 25         \* longest pending-edit buffer explored by SpecBurst

(***************************************************************************)
(* Flag taxonomy (part_001, SematicHighlightFlags).                        *)
(***************************************************************************)
FunctionScopedVariable == 1
BlockScopedVariable == 2
Variable == 3
Enum == 384
ConstEnum == 128
EnumMember == 8
Method == 8192
TypeParameter == 262144
TypeAlias == 524288
Alias == 2097152
Type == 67897832

\* Flags a resolved symbol may carry in the model: the table's entries the
\* rules mention, one allow-listed flag without a rule, and OR-ed values.
TypeParameterOrVariable == TypeParameter + Variable       \* TypeParameter | Variable
TypeAliasOrBlockScoped == TypeAlias + BlockScopedVariable \* TypeAlias | BlockScopedVariable
FlagInputs ==
  { FunctionScopedVariable, BlockScopedVariable, Variable, Enum, ConstEnum,
    EnumMember, Method, TypeParameter, TypeAlias, Type, Alias,
    TypeParameterOrVariable, TypeAliasOrBlockScoped }

\* Bitwise AND of two naturals (flags are bit masks).
RECURSIVE BitAnd(_, _)
BitAnd(a, b) ==
  IF a = 0 \/ b = 0 THEN 0
  ELSE 2 * BitAnd(a \div 2, b \div 2) + (IF a % 2 = 1 /\ b % 2 = 1 THEN 1 ELSE 0)

\* The chain with ConstEnum left out of the Enum rule.
CategoryWithoutConstEnum(kind) ==
  IF kind = TypeParameter \/ kind = TypeAlias THEN "TypeParameter"
  ELSE IF kind = BlockScopedVariable \/ kind = Type \/ kind = Variable
    THEN "BlockScopedOrType"
  ELSE IF kind = FunctionScopedVariable THEN "FunctionScopedVariable"
  ELSE IF kind = Enum THEN "Enum"
  ELSE IF kind = EnumMember THEN "EnumMember"
  ELSE "None"

\* The if / else-if chain of makeDecoration: the category a symbol kind gets.
\* The code compares with ===, not with a bit test.
Category(kind) ==
  IF kind = TypeParameter \/ kind = TypeAlias THEN "TypeParameter"
  ELSE IF kind = BlockScopedVariable \/ kind = Type \/ kind = Variable
    THEN "BlockScopedOrType"
  ELSE IF kind = FunctionScopedVariable THEN "FunctionScopedVariable"
  ELSE IF kind = Enum \/ kind = ConstEnum THEN "Enum"
  ELSE IF kind = EnumMember THEN "EnumMember"
  ELSE "None"

\* config.get(key, dflt) || dflt with no user setting: the default.
configGet(key, dflt) == dflt

makeDecorationType(color, bold, fontStyle) ==
  [color |-> color, fontWeight |-> IF bold THEN "bold" ELSE "normal",
   fontStyle |-> fontStyle]

\* The decoration type each branch of makeDecoration creates.
DecorationOf(category) ==
  CASE category = "TypeParameter" ->
         makeDecorationType(configGet("typeParameter", "#d8cb9a"), TRUE, "normal")
    [] category = "BlockScopedOrType" ->
         makeDecorationType(configGet("variable", "#b6b9ea"), FALSE, "normal")
    [] category = "FunctionScopedVariable" ->
         makeDecorationType(configGet("functionScopedVariable", "#eaacbf"), FALSE, "italic")
    [] category = "Enum" ->
         makeDecorationType(configGet("enums", "#77d1e5"), FALSE, "normal")
    [] category = "EnumMember" ->
         makeDecorationType(configGet("enums", "#ebaea7"), FALSE, "normal")

RECURSIVE makeDecorationFrom(_, _, _)
makeDecorationFrom(symbols, k, decorations) ==
  IF k > Len(symbols) THEN decorations
  ELSE LET symbol == symbols[k]
           c == Category(symbol.kind)
       IN makeDecorationFrom(symbols, k + 1,
            IF c = "None" THEN decorations
            ELSE Append(decorations,
                   [decoration |-> DecorationOf(c), range |-> symbol.range]))

makeDecoration(symbols) == makeDecorationFrom(symbols, 1, <<>>)

(***************************************************************************)
(* Documents, texts and syntax trees.  A text is known by its id; the      *)
(* parser maps it to a tree, kept as the pre-order list of its nodes with  *)
(* the index of each node's parent (0 for the source file node).  sym is   *)
(* what getSymbolAtLocation answers for the node in the tree's own         *)
(* program: no symbol, a symbol, or an exception.                          *)
(***************************************************************************)
NoSym == [res |-> "none", name |-> "", flags |-> 0]
Throws == [res |-> "throw", name |-> "", flags |-> 0]
Sym(name, flags) == [res |-> "symbol", name |-> name, flags |-> flags]
Node(pos, end, parent, sym) == [pos |-> pos, end |-> end, parent |-> parent, sym |-> sym]

Texts == 1..4

TextLen(t) == CASE t = 1 -> 12 [] t = 2 -> 9 [] t = 3 -> 10 [] t = 4 -> 8

TreeOf(t) ==
  CASE t = 1 -> << Node(0, 12, 0, NoSym),
                   Node(0, 7, 1, Sym("x", BlockScopedVariable)),
                   Node(3, 5, 2, Sym("T", TypeParameter)),
                   Node(7, 12, 1, Sym("f", FunctionScopedVariable)) >>
    [] t = 2 -> << Node(0, 9, 0, NoSym), Node(0, 9, 1, NoSym) >>
    [] t = 3 -> << Node(0, 10, 0, NoSym),
                   Node(0, 6, 1, Throws),
                   Node(2, 4, 2, Sym("E", Enum)),
                   Node(6, 10, 1, Sym("m", EnumMember)) >>
    [] t = 4 -> << Node(0, 8, 0, Sym("mod", Alias)),
                   Node(0, 4, 1, Sym("U", TypeParameterOrVariable)),
                   Node(4, 8, 1, Sym("m", Method)) >>

\* ts.forEachChild: the children of a node, left to right.
ChildrenOf(tree, node) ==
  SelectSeq([k \in 1..Len(tree) |-> k], LAMBDA j : tree[j].parent = node)

\* What getSymbolAtLocation answers for each node of a tree.  A checker asked
\* about a tree of its own program answers the tree's symbols ("bound").  A
\* checker asked about a tree of another program is outside the compiler's
\* contract: it may answer as if bound, find nothing, or fault.
ResolveModes == {"bound", "unbound", "fault"}
getSymbolAtLocation(mode, tree) ==
  [i \in 1..Len(tree) |->
     CASE mode = "bound" -> tree[i].sym
       [] mode = "unbound" -> NoSym
       [] mode = "fault" -> Throws]

\* The symbol with the two ends of its range exchanged.
SimpleSymbolSwapped(node, symbol) ==
  [text |-> symbol.name, range |-> [start |-> node.end, end |-> node.pos],
   kind |-> symbol.flags]
SimpleSymbol(node, symbol) ==
  [text |-> symbol.name, range |-> [start |-> node.pos, end |-> node.end],
   kind |-> symbol.flags]

\* visitor of extension.ts: resolves every child of node, then descends
\* into it.  No try/catch: an exception ends the whole pass (threw).
RECURSIVE visitor(_, _, _, _)
RECURSIVE forEachChild(_, _, _, _, _)
visitor(R, tree, node, st) == forEachChild(R, tree, ChildrenOf(tree, node), 1, st)
forEachChild(R, tree, kids, k, st) ==
  IF st.threw \/ k > Len(kids) THEN st
  ELSE LET child == kids[k]
           symbol == R[child]
       IN IF symbol.res = "throw" THEN [threw |-> TRUE, symbols |-> st.symbols]
          ELSE forEachChild(R, tree, kids, k + 1,
                 visitor(R, tree, child,
                   [threw |-> FALSE,
                    symbols |-> IF symbol.res = "symbol"
                                  THEN Append(st.symbols, SimpleSymbol(tree[child], symbol))
                                  ELSE st.symbols]))

\* visitor of part_002: resolves node itself, then visits its children, all
\* inside one try/catch: an exception at node skips node and its subtree.
RECURSIVE visitor2(_, _, _, _)
RECURSIVE forEachChild2(_, _, _, _, _)
visitor2(R, tree, node, symbols) ==
  LET symbol == R[node]
  IN IF symbol.res = "throw" THEN symbols
     ELSE forEachChild2(R, tree, ChildrenOf(tree, node), 1,
            IF symbol.res = "symbol"
              THEN Append(symbols, SimpleSymbol(tree[node], symbol))
              ELSE symbols)
forEachChild2(R, tree, kids, k, symbols) ==
  IF k > Len(kids) THEN symbols
  ELSE forEachChild2(R, tree, kids, k + 1, visitor2(R, tree, kids[k], symbols))

\* One classification pass over the whole tree of text t, as each revision
\* starts it: visitor(typeChecker, sourceFile, semanticSymbols).
Pass(r, mode, t) ==
  IF r = "save"
    THEN visitor(getSymbolAtLocation(mode, TreeOf(t)), TreeOf(t), 1,
                 [threw |-> FALSE, symbols |-> <<>>])
    ELSE [threw |-> FALSE,
          symbols |-> visitor2(getSymbolAtLocation(mode, TreeOf(t)), TreeOf(t), 1, <<>>)]

\* The same pass appending to the array semanticSymbols its caller hands it.
PassFrom(r, mode, t, semanticSymbols) ==
  IF r = "save"
    THEN visitor(getSymbolAtLocation(mode, TreeOf(t)), TreeOf(t), 1,
                 [threw |-> FALSE, symbols |-> semanticSymbols])
    ELSE [threw |-> FALSE,
          symbols |-> visitor2(getSymbolAtLocation(mode, TreeOf(t)), TreeOf(t), 1,
                               semanticSymbols)]

\* const semanticSymbols: SimpleSymbol[] = [];  a new array for each pass,
\* whatever the earlier passes (out) collected.
reusedSymbols(out) == IF out = <<>> THEN <<>> ELSE out[Len(out)].symbols
freshSymbols(out) == <<>>

(***************************************************************************)
(* State.  The four maps of activate(), keyed by URI; an absent key is     *)
(* <<>>, a present one <<value>>.  A tree and a type checker are known by  *)
(* the text their program was built from.                                  *)
(***************************************************************************)
VARIABLES
  rev,                \* which activate() runs: "save" or "batch"
  lang,               \* document.languageId of each URI
  scheme,             \* document.uri.scheme of each URI
  docText,            \* document.getText(): the text in the editor
  diskText,           \* the file on disk, <<>> when there is none
  visible,            \* number of visibleTextEditors showing each URI
  cachedDecorations,  \* Map<string, TextEditorDecoration[]>
  sourceFiles,        \* Map<string, ts.SourceFile>
  typeCheckers,       \* Map<string, ts.TypeChecker>
  textChangeBuffer,   \* Map<string, TextChangeBufferItem[]>
  lastEvent,          \* what the last handler run did (observation only)
  symbolsIn,          \* SpecFlags: the symbols given to makeDecoration
  decorationsOut,     \* SpecFlags: <<>> or <<the decorations it returned>>
  changesIn,          \* SpecRange: the batch given to minProperty / maxProperty
  rangeOut,           \* SpecRange: <<>> or <<the covering range computed>>
  passIn,             \* SpecPass: the tree and the checker given to visitor
  passOut             \* SpecPass: the results of the passes run so far

vars == << rev, lang, scheme, docText, diskText, visible, cachedDecorations,
           sourceFiles, typeCheckers, textChangeBuffer, lastEvent,
           symbolsIn, decorationsOut, changesIn, rangeOut, passIn, passOut >>
io == << symbolsIn, decorationsOut, changesIn, rangeOut, passIn, passOut >>
env == << rev, lang, scheme, io >>
stores == << cachedDecorations, sourceFiles, typeCheckers, textChangeBuffer >>

URIs == {"a", "b"}
maxTextChangeBufferLength == 20

Has(map, u) == map[u] # <<>>
Get(map, u) == map[u][1]
\* A set that writes the entry of every key.
SetEverywhere(map, u, v) == [w \in DOMAIN map |-> <<v>>]
Set(map, u, v) == [map EXCEPT ![u] = <<v>>]
\* A delete that leaves the entry in place.
DeleteNothing(map, u) == map
Delete(map, u) == [map EXCEPT ![u] = <<>>]
Pending(u) == IF Has(textChangeBuffer, u) THEN Len(Get(textChangeBuffer, u)) ELSE 0

\* The language ids the focus handler accepts ("typescriptreact" is listed twice).
IsSupportedLanguage(l) ==
  l = "typescript" \/ l = "typescriptreact" \/ l = "javascript" \/ l = "typescriptreact"

\* What a handler run did.  edits, changes: the content changes of the event
\* (their number, and the ranges they report);
\* reanalyses: calls of doIncrementalHighlight; baselines: programs created
\* by the focus handler; passes: runs of visitor, with the text of the tree
\* visited, the checker's mode and the symbols collected; rendered: the
\* argument of each setDecorations call; batch: the buffer handed to
\* doIncrementalHighlight; range: the covering range computed from it;
\* update: how ts.updateSourceFile ended; threw: an exception left the
\* handler; burst, fired: the single-edit change events that arrived in a
\* row since the buffer was last empty, and the reanalyses among them.
Event(op, u) ==
  [op |-> op, uri |-> u, edits |-> 0, changes |-> <<>>, reanalyses |-> 0, baselines |-> 0,
   passes |-> 0, tree |-> <<>>, mode |-> "", symbols |-> <<>>,
   rendered |-> <<>>, logged |-> <<>>, batch |-> <<>>, range |-> <<>>,
   update |-> "", threw |-> FALSE, burst |-> 0, fired |-> 0]

\* The event record of an accepted change event, with the burst it belongs
\* to: single-edit change events of one document in a row, the first of them
\* arriving with no edit pending.
Counted(ev, u) ==
  LET continues == lastEvent.op = "change" /\ lastEvent.uri = u
                   /\ lastEvent.burst > 0 /\ lastEvent.burst < MaxBurst
  IN IF ev.edits # 1 THEN ev
     ELSE IF continues
       THEN [ev EXCEPT !.burst = lastEvent.burst + 1, !.fired = lastEvent.fired]
     ELSE IF Pending(u) = 0 THEN [ev EXCEPT !.burst = 1]
     ELSE ev

\* The event record after one classification pass.
Passed(ev, t, mode, pass) ==
  [ev EXCEPT !.passes = 1, !.tree = <<t>>, !.mode = mode, !.symbols = pass.symbols,
             !.threw = pass.threw]

\* if (semanticSymbols.length > 0), reached only when the pass returned.
anySymbolsOrNone(pass) == ~pass.threw
anySymbols(pass) == ~pass.threw /\ Len(pass.symbols) > 0

\* const sourceFile = sourceFiles.get(urlString); if (!sourceFile) ...
neverLost(u) == FALSE
lostDocument(u) == ~Has(sourceFiles, u)

\* setDecorations called once per visible editor of the document.
RenderTimes(n, decorations) == [k \in 1..n |-> decorations]

\* document.offsetAt(new vscode.Position(0, character)) in a one-line
\* document: the position is clamped to the end of the text.
offsetAt(t, character) == IF character > TextLen(t) THEN TextLen(t) ELSE character

(***************************************************************************)
(* onDidChangeActiveTextEditor (both revisions; they differ in the visitor *)
(* the pass runs).  mode is the checker's answer when the stored tree of   *)
(* an earlier program is reused.                                           *)
(***************************************************************************)
activeEditorChanged(u, mode) ==
  LET ev == Event("focus", u) IN
  IF ~IsSupportedLanguage(lang[u])
    THEN /\ lastEvent' = ev
         /\ UNCHANGED stores
  ELSE IF Has(cachedDecorations, u)
    THEN /\ lastEvent' = [ev EXCEPT !.logged = <<"Open file">>,
                                    !.rendered = << Get(cachedDecorations, u) >>]
         /\ UNCHANGED stores
  ELSE
    LET sourceFile == IF Has(sourceFiles, u) THEN sourceFiles[u] ELSE diskText[u]
        ev1 == [ev EXCEPT !.logged = <<"Open file">>, !.baselines = 1]
    IN /\ typeCheckers' = Set(typeCheckers, u, diskText[u])
       /\ UNCHANGED textChangeBuffer
       /\ IF sourceFile = <<>>
            THEN /\ lastEvent' = ev1
                 /\ UNCHANGED << sourceFiles, cachedDecorations >>
            ELSE LET pass == Pass(rev, mode, sourceFile[1])
                     decorations == makeDecoration(pass.symbols)
                 IN /\ sourceFiles' = Set(sourceFiles, u, sourceFile[1])
                    /\ IF anySymbols(pass) /\ visible[u] > 0
                         THEN /\ cachedDecorations' = Set(cachedDecorations, u, decorations)
                              /\ lastEvent' = [Passed(ev1, sourceFile[1], mode, pass) EXCEPT
                                                 !.rendered = RenderTimes(visible[u], decorations)]
                         ELSE /\ lastEvent' = Passed(ev1, sourceFile[1], mode, pass)
                              /\ UNCHANGED cachedDecorations

\* The active editor is one of the visible editors.
FocusModes(u) ==
  IF IsSupportedLanguage(lang[u]) /\ ~Has(cachedDecorations, u) /\ Has(sourceFiles, u)
    THEN ResolveModes ELSE {"bound"}

onDidChangeActiveTextEditor(u) ==
  /\ rev = "save"
  /\ visible[u] > 0
  /\ \E mode \in FocusModes(u) : activeEditorChanged(u, mode)
  /\ UNCHANGED << env, docText, diskText, visible >>

onDidChangeActiveTextEditor2(u) ==
  /\ rev = "batch"
  /\ visible[u] > 0
  /\ \E mode \in FocusModes(u) : activeEditorChanged(u, mode)
  /\ UNCHANGED << env, docText, diskText, visible >>

\* The handler called with no editor (the last editor was closed).
onDidChangeActiveTextEditorNone ==
  /\ lastEvent' = Event("focus", "")
  /\ UNCHANGED << env, docText, diskText, visible, stores >>

(***************************************************************************)
(* extension.ts: doIncrementalHighlight, handleTextDocumentSave,           *)
(* handleTextDocumentChange.                                               *)
(***************************************************************************)
\* The offsets of the content changes, last reported first.
ChangesBufferReversed(t, changes) ==
  [k \in 1..Len(changes) |->
     [start |-> offsetAt(t, changes[Len(changes) + 1 - k].start),
      end |-> offsetAt(t, changes[Len(changes) + 1 - k].end)]]
\* The offsets of the event's content changes, in the order reported.
ChangesBuffer(t, changes) ==
  [k \in 1..Len(changes) |->
     [start |-> offsetAt(t, changes[k].start), end |-> offsetAt(t, changes[k].end)]]

\* Runs with the file just written: the program is built from diskText'.
\* ev carries what the caller already did.
doIncrementalHighlight(u, changesBuffer, ev) ==
  LET newSourceFile == diskText'[u]
      ev1 == [ev EXCEPT !.reanalyses = 1, !.fired = @ + 1, !.batch = <<changesBuffer>>]
  IN /\ UNCHANGED << sourceFiles, typeCheckers >>
     /\ IF newSourceFile = <<>>
          THEN /\ lastEvent' = ev1
               /\ UNCHANGED cachedDecorations
          ELSE LET pass == Pass("save", "bound", newSourceFile[1])
                   decorations == makeDecoration(pass.symbols)
               IN IF anySymbols(pass)
                    THEN /\ cachedDecorations' = Set(cachedDecorations, u, decorations)
                         /\ lastEvent' = [Passed(ev1, newSourceFile[1], "bound", pass) EXCEPT
                                            !.rendered = <<decorations>>]
                    ELSE /\ lastEvent' = Passed(ev1, newSourceFile[1], "bound", pass)
                         /\ UNCHANGED cachedDecorations

\* vscode.window.visibleTextEditors.find(editor => editor.document.uri ... ===
\* uriString): whether some visible editor shows the document.
anyEditor(u) == TRUE
currentEditor(u) == visible[u] > 0

\* onDidSaveTextDocument: the editor's text has been written to the file.
handleTextDocumentSave(u) ==
  /\ rev = "save"
  /\ scheme[u] = "file"
  /\ diskText' = [diskText EXCEPT ![u] = << docText[u] >>]
  /\ UNCHANGED << env, docText, visible >>
  /\ IF Has(textChangeBuffer, u) /\ currentEditor(u)
       THEN /\ doIncrementalHighlight(u, Get(textChangeBuffer, u), Event("save", u))
            /\ textChangeBuffer' = IF lastEvent'.threw THEN textChangeBuffer
                                   ELSE Delete(textChangeBuffer, u)
       ELSE /\ lastEvent' = Event("save", u)
            /\ UNCHANGED stores

\* onDidChangeTextDocument: the editor's text is t afterwards.
handleTextDocumentChange(u, t, changes) ==
  /\ rev = "save"
  /\ docText' = [docText EXCEPT ![u] = t]
  /\ UNCHANGED << env, diskText, visible, cachedDecorations, sourceFiles, typeCheckers >>
  /\ LET ev == [Event("change", u) EXCEPT !.edits = Len(changes), !.changes = changes] IN
     IF scheme[u] # "file" \/ visible[u] = 0
       THEN /\ lastEvent' = ev
            /\ UNCHANGED textChangeBuffer
     ELSE IF lostDocument(u)
       THEN /\ lastEvent' = [ev EXCEPT !.logged = <<"[ERROR] - We lost document!">>]
            /\ UNCHANGED textChangeBuffer
     ELSE LET changesBuffer == ChangesBuffer(t, changes)
          IN /\ lastEvent' = Counted(ev, u)
             /\ textChangeBuffer' =
                  IF Has(textChangeBuffer, u)
                    THEN Set(textChangeBuffer, u, Get(textChangeBuffer, u) \o changesBuffer)
                    ELSE Set(textChangeBuffer, u, changesBuffer)

(***************************************************************************)
(* part_000: minProperty / maxProperty.  array[0][property] of an empty    *)
(* array is a TypeError: the result is <<>> then, <<value>> otherwise.     *)
(***************************************************************************)
RECURSIVE maxFrom(_, _, _, _)
maxFrom(array, property, k, max) ==
  IF k > Len(array) THEN max
  ELSE maxFrom(array, property, k + 1,
         IF array[k][property] > max THEN array[k][property] ELSE max)

maxProperty(array, property) ==
  IF Len(array) = 0 THEN <<>>
  ELSE << maxFrom(array, property, 1, array[1][property]) >>

RECURSIVE minFrom(_, _, _, _)
minFrom(array, property, k, min) ==
  IF k > Len(array) THEN min
  ELSE minFrom(array, property, k + 1,
         IF array[k][property] < min THEN array[k][property] ELSE min)

\* The property of the first item, whatever the others hold.
minPropertyOfFirst(array, property) ==
  IF Len(array) = 0 THEN <<>>
  ELSE << array[1][property] >>
minProperty(array, property) ==
  IF Len(array) = 0 THEN <<>>
  ELSE << minFrom(array, property, 1, array[1][property]) >>

\* part_002 doIncrementalHighlight, its first two statements: the covering
\* range [minStart, maxEnd] of a batch, <<>> when they raise.
coveringRange(changesBuffer) ==
  LET minStart == minProperty(changesBuffer, "start")
      maxEnd == maxProperty(changesBuffer, "end")
  IN IF minStart = <<>> \/ maxEnd = <<>> THEN <<>>
     ELSE << [start |-> minStart[1], end |-> maxEnd[1]] >>

(***************************************************************************)
(* part_002: doIncrementalHighlight and handleTextDocumentChange.          *)
(***************************************************************************)
\* newSourceFile.statements.find(child => child.pos <= minStart && child.end >= maxEnd)
FindStatement(tree, minStart, maxEnd) ==
  \E j \in 1..Len(tree) :
    tree[j].parent = 1 /\ tree[j].pos <= minStart /\ tree[j].end >= maxEnd

\* ts.updateSourceFile over the whole previous text: the tree of the
\* editor's text t when it returns ("ok"); the call is not guarded, so when
\* it raises ("fail") the exception leaves the function.  mode: the stored
\* checker belongs to an earlier program.
UpdateOutcomes == {"ok", "fail"}
doIncrementalHighlight2(u, t, changesBuffer, mode, update, ev) ==
  LET minStart == minProperty(changesBuffer, "start")
      maxEnd == maxProperty(changesBuffer, "end")
      ev1 == [ev EXCEPT !.reanalyses = 1, !.fired = @ + 1, !.batch = <<changesBuffer>>,
                        !.range = coveringRange(changesBuffer)]
  IN /\ UNCHANGED typeCheckers
     /\ IF minStart = <<>> \/ maxEnd = <<>>
          THEN /\ lastEvent' = [ev1 EXCEPT !.threw = TRUE]
               /\ UNCHANGED << sourceFiles, cachedDecorations >>
        ELSE IF ~Has(sourceFiles, u)
          THEN /\ lastEvent' = ev1
               /\ UNCHANGED << sourceFiles, cachedDecorations >>
        ELSE IF update = "fail"
          THEN /\ lastEvent' = [ev1 EXCEPT !.update = "fail", !.threw = TRUE]
               /\ UNCHANGED << sourceFiles, cachedDecorations >>
        ELSE
          LET node == FindStatement(TreeOf(t), minStart[1], maxEnd[1])
              pass == Pass("batch", mode, t)
              decorations == makeDecoration(pass.symbols)
              ev2 == [ev1 EXCEPT !.update = "ok"]
          IN /\ sourceFiles' = Set(sourceFiles, u, t)
             /\ IF node /\ Has(typeCheckers, u)
                  THEN IF anySymbols(pass) /\ visible[u] > 0
                         THEN /\ cachedDecorations' = Set(cachedDecorations, u, decorations)
                              /\ lastEvent' = [Passed(ev2, t, mode, pass) EXCEPT
                                                 !.rendered = RenderTimes(visible[u], decorations)]
                         ELSE /\ lastEvent' = Passed(ev2, t, mode, pass)
                              /\ UNCHANGED cachedDecorations
                  ELSE /\ lastEvent' = ev2
                       /\ UNCHANGED cachedDecorations

handleTextDocumentChange2(u, t, changes, mode, update) ==
  /\ rev = "batch"
  /\ docText' = [docText EXCEPT ![u] = t]
  /\ UNCHANGED << env, diskText, visible >>
  /\ LET ev == [Event("change", u) EXCEPT !.edits = Len(changes), !.changes = changes] IN
     IF scheme[u] # "file" \/ visible[u] = 0
       THEN /\ lastEvent' = ev
            /\ UNCHANGED stores
     ELSE IF lostDocument(u)
       THEN /\ lastEvent' = [ev EXCEPT !.logged = <<"[ERROR] - We lost document!">>]
            /\ UNCHANGED stores
     ELSE LET changesBuffer == ChangesBuffer(t, changes)
              ev1 == [Counted(ev, u) EXCEPT !.logged = [k \in 1..Len(changes) |-> "Trigger"]]
          IN IF Has(textChangeBuffer, u)
               THEN LET newBuffer == Get(textChangeBuffer, u) \o changesBuffer
                    IN IF Len(newBuffer) >= maxTextChangeBufferLength
                         THEN /\ doIncrementalHighlight2(u, t, newBuffer, mode, update, ev1)
                              /\ textChangeBuffer' =
                                   IF lastEvent'.threw THEN textChangeBuffer
                                   ELSE Delete(textChangeBuffer, u)
                         ELSE /\ textChangeBuffer' = Set(textChangeBuffer, u, newBuffer)
                              /\ lastEvent' = ev1
                              /\ UNCHANGED << cachedDecorations, sourceFiles, typeCheckers >>
               ELSE /\ textChangeBuffer' = Set(textChangeBuffer, u, changesBuffer)
                    /\ lastEvent' = ev1
                    /\ UNCHANGED << cachedDecorations, sourceFiles, typeCheckers >>

\* part_002 registers no save handler: a save only writes the file.
fileWritten2(u) ==
  /\ rev = "batch"
  /\ scheme[u] = "file"
  /\ diskText' = [diskText EXCEPT ![u] = << docText[u] >>]
  /\ lastEvent' = Event("write", u)
  /\ UNCHANGED << env, docText, visible, stores >>

(***************************************************************************)
(* The host: editors of a document are shown and hidden.                   *)
(***************************************************************************)
showEditor(u) ==
  /\ visible[u] < MaxEditors
  /\ visible' = [visible EXCEPT ![u] = @ + 1]
  /\ lastEvent' = Event("show", u)
  /\ UNCHANGED << env, docText, diskText, stores >>

hideEditor(u) ==
  /\ visible[u] > 0
  /\ visible' = [visible EXCEPT ![u] = @ - 1]
  /\ lastEvent' = Event("hide", u)
  /\ UNCHANGED << env, docText, diskText, stores >>

(***************************************************************************)
(* Inputs and specifications.                                              *)
(***************************************************************************)
\* The character ranges a content change may report, and the lists of
\* content changes one change event may carry.
EditA == [start |-> 1, end |-> 3]
EditB == [start |-> 5, end |-> 9]
ChangeLists == { <<>>, <<EditA>>, <<EditB>>, <<EditA, EditB>>, <<EditB, EditA>> }

\* A change event: the new text and its content changes; an event without
\* content changes leaves the text as it is.
ChangeInputs(u, T, L) ==
  { in \in [t : T, changes : L] : in.changes = <<>> => in.t = docText[u] }

TsFile == [scheme |-> "file", lang |-> "typescript"]
Profiles ==
  { TsFile,
    [scheme |-> "file", lang |-> "typescriptreact"],
    [scheme |-> "file", lang |-> "javascript"],
    [scheme |-> "file", lang |-> "javascriptreact"],
    [scheme |-> "file", lang |-> "json"],
    [scheme |-> "untitled", lang |-> "typescript"] }

\* The state after activate(): empty maps, no editor shown.  P is the set of
\* profiles document "a" may have; it holds text 1.  Document "b" is another
\* TypeScript file, holding text 4.
InitMaps(P) ==
  /\ rev \in {"save", "batch"}
  /\ \E p \in P :
       /\ lang = [u \in URIs |-> IF u = "a" THEN p.lang ELSE TsFile.lang]
       /\ scheme = [u \in URIs |-> IF u = "a" THEN p.scheme ELSE TsFile.scheme]
       /\ diskText = [u \in URIs |-> IF u = "a"
                                       THEN (IF p.scheme # "file" THEN <<>> ELSE <<1>>)
                                       ELSE <<4>>]
  /\ docText = [u \in URIs |-> IF u = "a" THEN 1 ELSE 4]
  /\ visible = [u \in URIs |-> 0]
  /\ cachedDecorations = [u \in URIs |-> <<>>]
  /\ sourceFiles = [u \in URIs |-> <<>>]
  /\ typeCheckers = [u \in URIs |-> <<>>]
  /\ textChangeBuffer = [u \in URIs |-> <<>>]
  /\ lastEvent = Event("init", "")

NoPass == [t |-> 0, mode |-> ""]
InitOf(P) ==
  /\ InitMaps(P)
  /\ symbolsIn = <<>>
  /\ decorationsOut = <<>>
  /\ changesIn = <<>>
  /\ rangeOut = <<>>
  /\ passIn = NoPass
  /\ passOut = <<>>

\* A change event on u whose pending edits stay within cap.
textDocumentChanged(u, T, L, cap) ==
  \E in \in ChangeInputs(u, T, L) :
    /\ Pending(u) + Len(in.changes) <= cap
    /\ handleTextDocumentChange(u, in.t, in.changes)

\* The stored checker is asked only when the event flushes the buffer.
ChangeModes(u, changes) ==
  IF Has(textChangeBuffer, u) /\ Pending(u) + Len(changes) >= maxTextChangeBufferLength
    THEN ResolveModes ELSE {"bound"}

textDocumentChanged2(u, T, L, cap, Upd) ==
  \E in \in ChangeInputs(u, T, L) : \E mode \in ChangeModes(u, in.changes) :
  \E update \in Upd :
    /\ Pending(u) + Len(in.changes) <= cap
    /\ handleTextDocumentChange2(u, in.t, in.changes, mode, update)

\* Events on the documents of U, with texts of T, change lists of L,
\* pending-edit buffers of at most cap edits and tree updates ending as in Upd.
NextOf(U, T, L, cap, Upd) ==
  \/ \E u \in U : onDidChangeActiveTextEditor(u)
  \/ \E u \in U : onDidChangeActiveTextEditor2(u)
  \/ onDidChangeActiveTextEditorNone
  \/ \E u \in U : handleTextDocumentSave(u)
  \/ \E u \in U : fileWritten2(u)
  \/ \E u \in U : textDocumentChanged(u, T, L, cap)
  \/ \E u \in U : textDocumentChanged2(u, T, L, cap, Upd)
  \/ \E u \in U : showEditor(u)
  \/ \E u \in U : hideEditor(u)

\* Spec: one TypeScript file, every text, every change list.
Init == InitOf({TsFile})
Next == NextOf({"a"}, Texts, ChangeLists, MaxPending, {"ok"})
Spec == Init /\ [][Next]_vars

\* SpecBurst: bursts of single-edit change events up to and past the threshold.
NextBurst == NextOf({"a"}, {1, 2}, { <<EditA>> }, MaxBurst, {"ok"})
SpecBurst == Init /\ [][NextBurst]_vars

\* SpecUpdate: the bursts of SpecBurst, with tree updates that may raise.
NextUpdate == NextOf({"a"}, {1, 2}, { <<EditA>> }, MaxBurst, UpdateOutcomes)
SpecUpdate == Init /\ [][NextUpdate]_vars

\* SpecOrder: change events carrying every change list, on texts long and
\* short enough for the edits to be clamped or not.
NextOrder == NextOf({"a"}, {1, 4}, ChangeLists, MaxPending, {"ok"})
SpecOrder == Init /\ [][NextOrder]_vars

\* SpecMany: the bursts of SpecBurst, with change events that carry as many
\* content changes as the threshold (one edit made at that many cursors).
ManyEdits == [k \in 1..maxTextChangeBufferLength |-> EditA]
NextMany == NextOf({"a"}, {1, 2}, { <<EditA>>, ManyEdits }, MaxBurst, {"ok"})
SpecMany == Init /\ [][NextMany]_vars

\* SpecDocs: documents of every profile.
InitDocs == InitOf(Profiles)
NextDocs == NextOf({"a"}, {1, 2}, { <<>>, <<EditA>> }, MaxPending, {"ok"})
SpecDocs == InitDocs /\ [][NextDocs]_vars

\* SpecTwo: two documents side by side, their edits leaving text 1.
NextTwo == NextOf(URIs, {1}, { <<EditA>> }, MaxTwo, {"ok"})
SpecTwo == Init /\ [][NextTwo]_vars

\* SpecFlags: makeDecoration applied to every list of at most two symbols
\* whose kinds are drawn from FlagInputs.
FlagSymbols == { [text |-> "s", range |-> [start |-> 0, end |-> 1], kind |-> f] : f \in FlagInputs }
SymbolLists ==
  { <<>> } \cup { <<x>> : x \in FlagSymbols } \cup { <<x, y>> : x \in FlagSymbols, y \in FlagSymbols }

InitFlags ==
  /\ InitOf({TsFile})
  /\ rev = "save"

symbolsResolved ==
  /\ \E symbols \in SymbolLists : symbolsIn' = symbols
  /\ decorationsOut' = <<>>
  /\ UNCHANGED << rev, lang, scheme, docText, diskText, visible, stores, lastEvent,
                  changesIn, rangeOut, passIn, passOut >>

makeDecorationCalled ==
  /\ decorationsOut = <<>>
  /\ decorationsOut' = << makeDecoration(symbolsIn) >>
  /\ UNCHANGED << rev, lang, scheme, docText, diskText, visible, stores, lastEvent,
                  symbolsIn, changesIn, rangeOut, passIn, passOut >>

NextFlags == symbolsResolved \/ makeDecorationCalled
SpecFlags == InitFlags /\ [][NextFlags]_vars

\* SpecRange: the covering range of every batch of at most three edits drawn
\* from BatchEdits, next to bursts of change events that reach the threshold.
BatchEdits ==
  { [start |-> 5, end |-> 8], [start |-> 40, end |-> 45], [start |-> 12, end |-> 20] }
Batches ==
  { <<x>> : x \in BatchEdits } \cup { <<x, y>> : x \in BatchEdits, y \in BatchEdits }
    \cup { <<x, y, z>> : x \in BatchEdits, y \in BatchEdits, z \in BatchEdits }

InitRange ==
  /\ InitMaps({TsFile})
  /\ symbolsIn = <<>>
  /\ decorationsOut = <<>>
  /\ changesIn \in Batches
  /\ rangeOut = <<>>
  /\ passIn = NoPass
  /\ passOut = <<>>

coveringRangeComputed ==
  /\ rangeOut = <<>>
  /\ rangeOut' = coveringRange(changesIn)
  /\ UNCHANGED << rev, lang, scheme, docText, diskText, visible, stores, lastEvent,
                  symbolsIn, decorationsOut, changesIn, passIn, passOut >>

NextRange == NextOf({"a"}, {1}, { <<EditA>> }, MaxBurst, {"ok"}) \/ coveringRangeComputed
SpecRange == InitRange /\ [][NextRange]_vars

\* SpecPass: the classification (visitor, then makeDecoration) run up to
\* MaxPasses times over one tree with one checker, whose answers stay the
\* same from one pass to the next, while the handlers run on document a.
MaxPasses == 2
InitPass ==
  /\ InitMaps({TsFile})
  /\ symbolsIn = <<>>
  /\ decorationsOut = <<>>
  /\ changesIn = <<>>
  /\ rangeOut = <<>>
  /\ passIn \in [t : Texts, mode : ResolveModes]
  /\ passOut = <<>>

visitorCalled ==
  /\ Len(passOut) < MaxPasses
  /\ LET semanticSymbols == freshSymbols(passOut)
         pass == PassFrom(rev, passIn.mode, passIn.t, semanticSymbols)
     IN passOut' = Append(passOut, [threw |-> pass.threw, symbols |-> pass.symbols,
                                    decorations |-> <<>>])
  /\ UNCHANGED << rev, lang, scheme, docText, diskText, visible, stores, lastEvent,
                  symbolsIn, decorationsOut, changesIn, rangeOut, passIn >>

decorationsMade ==
  /\ passOut # <<>>
  /\ LET last == passOut[Len(passOut)]
     IN /\ ~last.threw /\ last.decorations = <<>>
        /\ passOut' = [passOut EXCEPT ![Len(passOut)].decorations =
                                        << makeDecoration(last.symbols) >>]
  /\ UNCHANGED << rev, lang, scheme, docText, diskText, visible, stores, lastEvent,
                  symbolsIn, decorationsOut, changesIn, rangeOut, passIn >>

NextPass ==
  \/ NextOf({"a"}, {1}, { <<EditA>> }, MaxTwo, {"ok"})
  \/ visitorCalled
  \/ decorationsMade
SpecPass == InitPass /\ [][NextPass]_vars

(***************************************************************************)
(* Properties.                                                             *)
(***************************************************************************)
\* The handler that ran last was handler op on document u.
Ran(op, u) == lastEvent'.op = op /\ lastEvent'.uri = u
\* u was analysed and is shown: a baseline tree is stored, an editor is visible.
Analyzed(u) == Has(sourceFiles, u) /\ visible[u] > 0 /\ scheme[u] = "file"

\* C1: on an analysed, visible document each single-edit change event that
\* brings the pending edits to fewer than 20 triggers no reanalysis, and the
\* one that brings them to 20 triggers exactly one reanalysis and leaves the
\* pending-edit buffer empty.
C1_BatchThreshold ==
  [][ \A u \in URIs :
        (Ran("change", u) /\ lastEvent'.edits = 1 /\ Analyzed(u)
           /\ Pending(u) < maxTextChangeBufferLength)
        => IF Pending(u) + 1 = maxTextChangeBufferLength
             THEN lastEvent'.reanalyses = 1 /\ textChangeBuffer'[u] = <<>>
             ELSE lastEvent'.reanalyses = 0 ]_vars

\* C2: a save of an analysed, visible document with at least one pending edit
\* triggers exactly one reanalysis and leaves its pending-edit buffer empty.
C2_SaveFlushes ==
  [][ \A u \in URIs :
        (Ran("save", u) /\ Analyzed(u) /\ Pending(u) >= 1)
        => lastEvent'.reanalyses = 1 /\ textChangeBuffer'[u] = <<>> ]_vars

\* Focus on a document whose classification is cached: that classification
\* is rendered, nothing is analysed, no map changes.
FocusReplays(u) ==
  /\ lastEvent'.rendered = << Get(cachedDecorations, u) >>
  /\ lastEvent'.baselines = 0 /\ lastEvent'.passes = 0
  /\ UNCHANGED stores

\* C3 as stated: focus on a supported document replays the cached
\* classification if there is one; otherwise a baseline analysis runs and its
\* tree, resolver and classification are stored.
C3_FocusStoresBaseline ==
  [][ \A u \in URIs :
        (Ran("focus", u) /\ IsSupportedLanguage(lang[u]))
        => IF Has(cachedDecorations, u) THEN FocusReplays(u)
           ELSE /\ lastEvent'.baselines = 1 /\ lastEvent'.passes = 1
                /\ Has(sourceFiles', u) /\ Has(typeCheckers', u)
                /\ Has(cachedDecorations', u) ]_vars

\* C3 amended: focus on a supported document replays the cached
\* classification if there is one.  Otherwise a baseline analysis runs: the
\* new program's resolver is stored; the tree stored is the one already
\* stored or else the new program's, if it has one; the classification of the
\* pass is cached exactly when the pass returns at least one symbol, and
\* the cache stays empty otherwise.
C3_FocusBaseline ==
  [][ \A u \in URIs :
        (Ran("focus", u) /\ IsSupportedLanguage(lang[u]))
        => IF Has(cachedDecorations, u) THEN FocusReplays(u)
           ELSE /\ lastEvent'.baselines = 1
                /\ typeCheckers'[u] = << diskText[u] >>
                /\ sourceFiles'[u] = IF Has(sourceFiles, u) THEN sourceFiles[u] ELSE diskText[u]
                /\ lastEvent'.passes = IF Has(sourceFiles', u) THEN 1 ELSE 0
                /\ cachedDecorations'[u] =
                     IF lastEvent'.passes = 1 /\ ~lastEvent'.threw /\ Len(lastEvent'.symbols) > 0
                       THEN << makeDecoration(lastEvent'.symbols) >> ELSE <<>>
                /\ lastEvent'.rendered = IF Has(cachedDecorations', u)
                                           THEN RenderTimes(visible[u], Get(cachedDecorations', u))
                                           ELSE <<>>
                /\ UNCHANGED textChangeBuffer
                /\ \A v \in URIs \ {u} :
                     /\ typeCheckers'[v] = typeCheckers[v]
                     /\ sourceFiles'[v] = sourceFiles[v]
                     /\ cachedDecorations'[v] = cachedDecorations[v] ]_vars

\* C3 witness: a baseline analysis ran on focus, found no symbol and cached nothing.
C3_Witness ==
  /\ lastEvent.op = "focus" /\ lastEvent.uri \in URIs
  /\ lastEvent.baselines = 1 /\ lastEvent.passes = 1 /\ lastEvent.symbols = <<>>
  /\ ~lastEvent.threw
  /\ ~Has(cachedDecorations, lastEvent.uri) /\ Has(sourceFiles, lastEvent.uri)

\* C4 as stated: a change event for a URI with no stored tree triggers no
\* reanalysis, changes no map, raises nothing and logs the error.
C4_LostDocumentLogged ==
  [][ \A u \in URIs :
        (Ran("change", u) /\ ~Has(sourceFiles, u))
        => /\ lastEvent'.reanalyses = 0 /\ ~lastEvent'.threw
           /\ UNCHANGED stores
           /\ lastEvent'.logged = <<"[ERROR] - We lost document!">> ]_vars

\* C4 amended: a change event for a URI with no stored tree triggers no
\* reanalysis, changes no map and raises nothing; the error is logged when
\* the document is a file shown in a visible editor, and nothing is logged
\* otherwise.
C4_LostDocumentDropped ==
  [][ \A u \in URIs :
        (Ran("change", u) /\ ~Has(sourceFiles, u))
        => /\ lastEvent'.reanalyses = 0 /\ ~lastEvent'.threw
           /\ UNCHANGED stores
           /\ lastEvent'.logged = IF scheme[u] = "file" /\ visible[u] > 0
                                    THEN <<"[ERROR] - We lost document!">> ELSE <<>> ]_vars

\* C4 witness: an edit of a visible file without baseline was dropped with the error.
C4_Witness ==
  /\ lastEvent.op = "change" /\ lastEvent.uri \in URIs /\ lastEvent.edits > 0
  /\ lastEvent.logged = <<"[ERROR] - We lost document!">>
  /\ ~Has(sourceFiles, lastEvent.uri) /\ ~Has(textChangeBuffer, lastEvent.uri)

\* A flag matches a rule's mask when they share a bit.
Matches(flag, mask) == BitAnd(flag, mask) # 0
MatchesRule1(flag) == Matches(flag, TypeParameter) \/ Matches(flag, TypeAlias)
MatchesRule2(flag) ==
  Matches(flag, BlockScopedVariable) \/ Matches(flag, Type) \/ Matches(flag, Variable)

\* C5: a symbol whose flag matches both rule 1 and rule 2 is decorated as
\* TypeParameter (so is TypeParameter | Variable), never as BlockScopedOrType.
C5_Rule1BeforeRule2 ==
  (/\ decorationsOut # <<>> /\ Len(symbolsIn) = 1
   /\ MatchesRule1(symbolsIn[1].kind) /\ MatchesRule2(symbolsIn[1].kind))
  => decorationsOut[1] =
       << [decoration |-> DecorationOf("TypeParameter"), range |-> symbolsIn[1].range] >>

\* The rules in their order: the kinds each one tests for, and its styling.
RuleKinds ==
  << {TypeParameter, TypeAlias}, {BlockScopedVariable, Type, Variable},
     {FunctionScopedVariable}, {Enum, ConstEnum}, {EnumMember} >>
RuleStyle ==
  << [color |-> "#d8cb9a", fontWeight |-> "bold", fontStyle |-> "normal"],
     [color |-> "#b6b9ea", fontWeight |-> "normal", fontStyle |-> "normal"],
     [color |-> "#eaacbf", fontWeight |-> "normal", fontStyle |-> "italic"],
     [color |-> "#77d1e5", fontWeight |-> "normal", fontStyle |-> "normal"],
     [color |-> "#ebaea7", fontWeight |-> "normal", fontStyle |-> "normal"] >>
RulesPassed(kind) == { i \in 1..Len(RuleKinds) : kind \in RuleKinds[i] }
FirstRule(kind) == CHOOSE i \in RulesPassed(kind) : \A j \in RulesPassed(kind) : i <= j
StyleOfKind(out, kind) ==
  IF kind \in {FunctionScopedVariable} THEN out = <<RuleStyle[3]>>
  ELSE IF kind \in {BlockScopedVariable} THEN out = <<RuleStyle[2]>>
  ELSE IF kind \in {Enum, ConstEnum} THEN out = <<RuleStyle[4]>>
  ELSE TRUE

\* C6: flag 1 is styled as FunctionScopedVariable, flag 2 as BlockScopedOrType,
\* flags 384 and 128 as Enum; every symbol gets at most one decoration, that
\* of the first rule, in the order TypeParameter, BlockScopedOrType,
\* FunctionScopedVariable, Enum, EnumMember, whose test its kind passes.
C6_FirstRuleWins ==
  (decorationsOut # <<>> /\ Len(symbolsIn) = 1)
  => LET kind == symbolsIn[1].kind
         out == [k \in 1..Len(decorationsOut[1]) |-> decorationsOut[1][k].decoration]
     IN /\ Len(out) <= 1
        /\ StyleOfKind(out, kind)
        /\ out = IF RulesPassed(kind) = {} THEN <<>> ELSE << RuleStyle[FirstRule(kind)] >>
        /\ \A k \in 1..Len(out) : decorationsOut[1][k].range = symbolsIn[1].range

\* C6 witness: a ConstEnum symbol was given the Enum styling.
C6_Witness ==
  /\ symbolsIn = << [text |-> "s", range |-> [start |-> 0, end |-> 1], kind |-> ConstEnum] >>
  /\ decorationsOut = << << [decoration |-> RuleStyle[4], range |-> [start |-> 0, end |-> 1]] >> >>

\* C7: every cached classification is the classification of the tree stored
\* for its URI, resolved with the resolver stored for it.
C7_ClassificationOfStoredTree ==
  \A u \in URIs :
    Has(cachedDecorations, u)
    => /\ Has(sourceFiles, u) /\ Has(typeCheckers, u)
       /\ \E mode \in (IF Get(typeCheckers, u) = << Get(sourceFiles, u) >>
                         THEN {"bound"} ELSE ResolveModes) :
            LET pass == Pass(rev, mode, Get(sourceFiles, u))
            IN ~pass.threw /\ Get(cachedDecorations, u) = makeDecoration(pass.symbols)

\* C8: a classification is cached and rendered only if it has at least one
\* classified range: no cached classification is empty and no analysis hands
\* an empty one to setDecorations.
C8_NoEmptyClassification ==
  /\ \A u \in URIs : Has(cachedDecorations, u) => Len(Get(cachedDecorations, u)) > 0
  /\ lastEvent.passes = 1 => \A k \in 1..Len(lastEvent.rendered) : Len(lastEvent.rendered[k]) > 0

\* C9: a reanalysis that produced no classification leaves the stored tree,
\* the stored resolver and the cached classification as they were.
C9_FailedReanalysisKeepsStore ==
  [][ \A u \in URIs :
        (lastEvent'.uri = u /\ lastEvent'.reanalyses = 1 /\ lastEvent'.rendered = <<>>)
        => /\ sourceFiles'[u] = sourceFiles[u]
           /\ typeCheckers'[u] = typeCheckers[u]
           /\ cachedDecorations'[u] = cachedDecorations[u] ]_vars

\* The symbols of the nodes of text t that resolve under mode, in document order.
ResolvingNodes(mode, t) ==
  LET tree == TreeOf(t)
      R == getSymbolAtLocation(mode, tree)
      at == SelectSeq([k \in 1..Len(tree) |-> k], LAMBDA i : R[i].res = "symbol")
  IN [k \in 1..Len(at) |-> SimpleSymbol(tree[at[k]], R[at[k]])]
SomeNodeThrows(mode, t) ==
  \E i \in 1..Len(TreeOf(t)) : getSymbolAtLocation(mode, TreeOf(t))[i].res = "throw"

\* C10: when resolution throws for a node of the tree being classified, the
\* pass still returns, with every node that resolves emitted, and nothing is
\* raised out of the handler.
C10_ThrowSkipsOneNode ==
  (lastEvent.passes = 1 /\ SomeNodeThrows(lastEvent.mode, lastEvent.tree[1]))
  => /\ ~lastEvent.threw
     /\ lastEvent.symbols = ResolvingNodes(lastEvent.mode, lastEvent.tree[1])

\* [lo, hi] covers a batch tightly: no edit starts before lo or ends after
\* hi, some edit starts at lo and some edit ends at hi.
Covers(range, batch) ==
  /\ \A k \in 1..Len(batch) : range.start <= batch[k].start /\ range.end >= batch[k].end
  /\ \E k \in 1..Len(batch) : range.start = batch[k].start
  /\ \E k \in 1..Len(batch) : range.end = batch[k].end
SpecExample ==
  << [start |-> 5, end |-> 8], [start |-> 40, end |-> 45], [start |-> 12, end |-> 20] >>

\* C11: the covering range computed for a non-empty batch is [min of the
\* starts, max of the ends] (starts 5, 40, 12 and ends 8, 45, 20 give
\* [5, 45]); a reanalysis that computes it is handed a non-empty batch and
\* covers it.
C11_CoveringRange ==
  /\ rangeOut # <<>> => Covers(rangeOut[1], changesIn)
  /\ (rangeOut # <<>> /\ changesIn = SpecExample) => rangeOut[1] = [start |-> 5, end |-> 45]
  /\ (lastEvent.reanalyses = 1 /\ rev = "batch")
       => /\ lastEvent.batch[1] # <<>>
          /\ lastEvent.range # <<>>
          /\ Covers(lastEvent.range[1], lastEvent.batch[1])
  /\ lastEvent.range # <<>> => lastEvent.batch[1] # <<>>

\* C11 witness: the range of a batch whose first edit holds neither bound was
\* computed, and a threshold flush computed the range of its batch.
C11_Witness ==
  /\ changesIn = << [start |-> 12, end |-> 20], [start |-> 5, end |-> 8], [start |-> 40, end |-> 45] >>
  /\ rangeOut = << [start |-> 5, end |-> 45] >>
  /\ lastEvent.reanalyses = 1 /\ lastEvent.range # <<>>
  /\ Len(lastEvent.batch[1]) = maxTextChangeBufferLength

\* C12: no change event, whatever the number of pending edits, causes a
\* reanalysis, a change of the cached classification or a call of
\* setDecorations.
C12_ChangeNeverUpdates ==
  [][ \A u \in URIs :
        Ran("change", u)
        => /\ lastEvent'.reanalyses = 0
           /\ cachedDecorations' = cachedDecorations
           /\ lastEvent'.rendered = <<>> ]_vars

\* The four language ids the README documents.
DocumentedLanguages == {"typescript", "typescriptreact", "javascript", "javascriptreact"}

\* C13: a focus-change event on a document of any of the four documented
\* languages replays the cached classification or runs a baseline analysis.
C13_FourLanguages ==
  [][ \A u \in URIs :
        (Ran("focus", u) /\ lang[u] \in DocumentedLanguages)
        => IF Has(cachedDecorations, u)
             THEN lastEvent'.rendered = << Get(cachedDecorations, u) >>
             ELSE lastEvent'.baselines = 1 ]_vars

\* C14: in a burst of single-edit change events on an analysed document that
\* starts with no edit pending and has no save in between, exactly one
\* reanalysis fires, at the 20th edit; the edits after it stay in the
\* pending-edit buffer, none lost, and no further reanalysis fires up to the
\* 25th edit.
C14_BurstOfTwentyFive ==
  lastEvent.burst > 0
  => /\ lastEvent.fired = IF lastEvent.burst >= maxTextChangeBufferLength THEN 1 ELSE 0
     /\ lastEvent.reanalyses = IF lastEvent.burst = maxTextChangeBufferLength THEN 1 ELSE 0
     /\ Pending(lastEvent.uri) =
          IF lastEvent.burst >= maxTextChangeBufferLength
            THEN lastEvent.burst - maxTextChangeBufferLength ELSE lastEvent.burst

\* C15: an event concerning one URI, with the reanalysis it triggers, leaves
\* the pending-edit buffer, the stored tree, the stored resolver and the
\* cached classification of every other URI unchanged.
C15_OtherDocumentsUntouched ==
  [][ \A u \in URIs : \A v \in URIs \ {u} :
        lastEvent'.uri = u
        => /\ textChangeBuffer'[v] = textChangeBuffer[v]
           /\ sourceFiles'[v] = sourceFiles[v]
           /\ typeCheckers'[v] = typeCheckers[v]
           /\ cachedDecorations'[v] = cachedDecorations[v] ]_vars

\* C15 witness: a reanalysis of document a has cached its classification
\* while document b holds a tree, a resolver, a classification and a
\* pending edit of its own.
C15_Witness ==
  /\ lastEvent.uri = "a" /\ lastEvent.reanalyses = 1 /\ lastEvent.rendered # <<>>
  /\ Has(cachedDecorations, "a")
  /\ Has(sourceFiles, "b") /\ Has(typeCheckers, "b") /\ Has(cachedDecorations, "b")
  /\ Pending("b") = 1
  /\ sourceFiles["a"] # sourceFiles["b"]

ArrivedEdits(u) ==
  [k \in 1..Len(lastEvent'.changes) |->
     [start |-> IF lastEvent'.changes[k].start > TextLen(docText'[u])
                  THEN TextLen(docText'[u]) ELSE lastEvent'.changes[k].start,
      end |-> IF lastEvent'.changes[k].end > TextLen(docText'[u])
                THEN TextLen(docText'[u]) ELSE lastEvent'.changes[k].end]]
PendingEdits(u) == IF Has(textChangeBuffer, u) THEN Get(textChangeBuffer, u) ELSE <<>>

\* C17: after an accepted change event that does not flush, the pending-edit
\* buffer is the buffer before the event followed by the event's edits in the
\* order reported; the batch a flush hands to the reanalysis is the buffer
\* (followed, when a change event flushes, by that event's edits).
C17_BufferGrowsInOrder ==
  [][ \A u \in URIs :
        /\ (Ran("change", u) /\ Analyzed(u) /\ lastEvent'.reanalyses = 0)
             => textChangeBuffer'[u] = << PendingEdits(u) \o ArrivedEdits(u) >>
        /\ (Ran("change", u) /\ lastEvent'.reanalyses = 1)
             => lastEvent'.batch = << PendingEdits(u) \o ArrivedEdits(u) >>
        /\ (Ran("save", u) /\ lastEvent'.reanalyses = 1)
             => lastEvent'.batch = << PendingEdits(u) >> ]_vars

\* C17 witness: two edits arrived, the one further down the text first, and
\* a save handed the two to the reanalysis in their order of arrival.
C17_Witness ==
  /\ lastEvent.op = "save" /\ lastEvent.reanalyses = 1
  /\ Len(lastEvent.batch[1]) = 2
  /\ lastEvent.batch[1][1].start = 5 /\ lastEvent.batch[1][2].start = 1

\* The decorations of a list of symbols: one for each symbol whose kind is
\* tested by some rule, in the order of the symbols.
DecorationsInOrder(symbols) ==
  LET at == SelectSeq([k \in 1..Len(symbols) |-> k],
                      LAMBDA i : RulesPassed(symbols[i].kind) # {})
  IN [k \in 1..Len(at) |->
        [decoration |-> RuleStyle[FirstRule(symbols[at[k]].kind)],
         range |-> symbols[at[k]].range]]

\* C18: a pass over a tree none of whose nodes makes resolution throw emits
\* the symbols of all its nodes, the root included, in pre-order; the
\* decorations rendered from it keep that order, one per symbol whose kind
\* has a category.
C18_PreOrderWithRoot ==
  (lastEvent.passes = 1 /\ ~SomeNodeThrows(lastEvent.mode, lastEvent.tree[1]))
  => /\ lastEvent.symbols = ResolvingNodes(lastEvent.mode, lastEvent.tree[1])
     /\ \A k \in 1..Len(lastEvent.rendered) :
          lastEvent.rendered[k] = DecorationsInOrder(lastEvent.symbols)

\* C19: the handlers run to completion one after the other, so an edit that
\* arrives while a reanalysis of its document runs is delivered as the next
\* change event.  That edit starts no reanalysis and was not in the batch
\* being reanalysed; after the event the pending-edit buffer ends with it, and
\* holds nothing else when the reanalysis returned and cleared its batch.
C19_EditDuringReanalysis ==
  [][ \A u \in URIs :
        (lastEvent.reanalyses = 1 /\ lastEvent.uri = u
           /\ Ran("change", u) /\ lastEvent'.edits > 0)
        => /\ lastEvent'.reanalyses = 0
           /\ textChangeBuffer'[u] = << PendingEdits(u) \o ArrivedEdits(u) >>
           /\ ~lastEvent.threw => textChangeBuffer'[u] = << ArrivedEdits(u) >> ]_vars

\* C19 witness: the 21st edit of a burst was delivered right after the
\* reanalysis the 20th started, and it is the one pending edit.
C19_Witness ==
  /\ lastEvent.op = "change" /\ lastEvent.burst = maxTextChangeBufferLength + 1
  /\ lastEvent.fired = 1 /\ lastEvent.reanalyses = 0
  /\ Pending(lastEvent.uri) = 1

\* C20: when the incremental update of the stored tree fails during a
\* reanalysis, no exception leaves the handler and the reanalysis completes:
\* the tree of the new full text is stored and classified.
C20_UpdateFailureFallsBack ==
  [][ \A u \in URIs :
        (lastEvent'.uri = u /\ lastEvent'.reanalyses = 1 /\ lastEvent'.update = "fail")
        => /\ ~lastEvent'.threw
           /\ sourceFiles'[u] = << docText'[u] >>
           /\ lastEvent'.passes = 1 ]_vars

\* The ranges an analysis emitted: those of its symbols and of the
\* decorations it rendered.
EmittedRanges ==
  { lastEvent.symbols[k].range : k \in 1..Len(lastEvent.symbols) }
    \cup UNION { { lastEvent.rendered[i][k].range : k \in 1..Len(lastEvent.rendered[i]) } :
                  i \in 1..Len(lastEvent.rendered) }

\* C21 as stated: every range an analysis emits has start <= end and both
\* offsets inside [0, length) of the text the analysis was computed from.
C21_OffsetsInsideText ==
  lastEvent.passes = 1
  => \A r \in EmittedRanges :
       /\ r.start <= r.end
       /\ 0 <= r.start /\ r.start < TextLen(lastEvent.tree[1])
       /\ 0 <= r.end /\ r.end < TextLen(lastEvent.tree[1])

\* C21 amended: every range an analysis emits has 0 <= start <= end <=
\* length of the text that was parsed into the tree the analysis ran on (the
\* end is the offset after the node's last character, and is the length for
\* a node that ends the text).
C21_OffsetsWithinText ==
  lastEvent.passes = 1
  => \A r \in EmittedRanges :
       0 <= r.start /\ r.start <= r.end /\ r.end <= TextLen(lastEvent.tree[1])

\* C21 witness: an analysis emitted the range of a node that ends its text.
C21_Witness ==
  /\ lastEvent.passes = 1 /\ lastEvent.rendered # <<>>
  /\ \E r \in EmittedRanges : r.start < r.end /\ r.end = TextLen(lastEvent.tree[1])

\* C22: whenever a handler has returned, the pending-edit buffer stored for
\* each document holds fewer than 20 edits.
C22_BufferBelowThreshold ==
  \A u \in URIs : Pending(u) < maxTextChangeBufferLength

\* C23: in every reachable state a URI has a pending-edit buffer only if a
\* tree is stored for it, a cached classification only if a tree is stored
\* for it, and a stored tree only if a resolver is stored for it.
C23_MapsConsistent ==
  \A u \in URIs :
    /\ Has(textChangeBuffer, u) => Has(sourceFiles, u)
    /\ Has(cachedDecorations, u) => Has(sourceFiles, u)
    /\ Has(sourceFiles, u) => Has(typeCheckers, u)

\* C23 witness: a document has a pending edit, a cached classification, a
\* tree and a resolver at once, after an edit that left its text different
\* from the text of the stored tree.
C23_Witness ==
  /\ lastEvent.op = "change" /\ lastEvent.uri = "a"
  /\ Pending("a") = 1 /\ Has(cachedDecorations, "a")
  /\ Has(sourceFiles, "a") /\ Has(typeCheckers, "a")
  /\ docText["a"] # Get(sourceFiles, "a")

\* C24: a save of a document that has no pending-edit buffer stored, or
\* that no visible editor shows, runs no reanalysis, renders nothing and
\* leaves the four maps as they were; the buffer of a document that is not
\* visible is kept.
C24_SaveWithoutFlush ==
  [][ \A u \in URIs :
        ((Ran("save", u) \/ Ran("write", u))
           /\ (~Has(textChangeBuffer, u) \/ visible[u] = 0))
        => /\ lastEvent'.reanalyses = 0 /\ lastEvent'.passes = 0
           /\ lastEvent'.rendered = <<>>
           /\ UNCHANGED stores ]_vars

\* C24 witness: a document with a pending edit and no visible editor was
\* saved; nothing was reanalysed and the edit is still pending.
C24_Witness ==
  /\ lastEvent.op = "save" /\ lastEvent.uri = "a" /\ lastEvent.reanalyses = 0
  /\ visible["a"] = 0 /\ Pending("a") = 1
  /\ diskText["a"] = << docText["a"] >>

====
